---- MODULE Spec2Model ----
(***************************************************************************)
(* Air-quality dashboard (Streamlit): the refresh loop of the dashboard    *)
(* tab, the cached store adapter, and the ML prediction tab.               *)
(* Sources: src/dashboard_calidad_aire.py (dashboard + ML, cached store    *)
(* adapter) and src/unnamed/part_000 (the dashboard-only program, no       *)
(* cache).                                                                 *)
(***************************************************************************)
EXTENDS Integers, Sequences, FiniteSets, TLC

VARIABLES
    program,                    \* which of the two scripts is running
    tab_selection,              \* the sidebar radio: "Dashboard" or "Predicciones ML"
    db,                         \* rows of table mediciones (external store)
    auto_refresh, refresh_interval, time_window,
    estado_seleccionado, contaminante_seleccionado, selected_cont_chart,
    df_all, df, df_filtered,    \* data frames of the current script run
    metrics,                    \* avg/max/count/nunique of df_filtered
    df_map,                     \* latest row per city (the map's frame)
    categoria_counts,           \* value_counts() of categoria with its percentages
    summary_state, summary_cont, df_ts,
    rendered,                   \* what the placeholder container shows
    published,                  \* views completed by the current run
    cache,                      \* st.cache_data entries
    pc, iteration, trigger,     \* position in the script, loop counter, what started the run
    queryLog,                   \* store queries issued by the current run
    runs,                       \* script runs started after the first one
    slept,                      \* seconds the previous run slept before st.rerun()
    artifacts,                  \* modelo1_aqi.pkl / modelo2_aqi.pkl on disk
    models,                     \* result of load_ml_models()
    ppc,                        \* position in the prediction tab's script
    sidebarStatus,              \* per-model status lines of the sidebar
    categorias,                 \* get_unique_values(): DISTINCT categoria
    pred_categoria,             \* the category selectbox (None without modelo2)
    predictions,                \* the dict predict_aqi returns
    invoked,                    \* model.predict calls made by the current run
    outcomes,                   \* what each model's predict did on this call
    handed,                     \* the single-row frame handed to each model
    shown,                      \* what the result columns display
    comparison,                 \* the comparison block, when rendered
    predQueries,                \* store queries issued by the current run
    aqi, info                   \* get_aqi_category_info: argument and returned triple

dashVars == <<program, tab_selection, db, auto_refresh, refresh_interval, time_window,
              estado_seleccionado, contaminante_seleccionado, selected_cont_chart,
              df_all, df, df_filtered, metrics, df_map, categoria_counts,
              summary_state, summary_cont, df_ts,
              rendered, published, cache, pc, iteration, trigger, queryLog, runs, slept>>

predVars == <<artifacts, models, ppc, sidebarStatus, categorias, pred_categoria,
              predictions, invoked, outcomes, handed, shown, comparison, predQueries>>

fnVars == <<aqi, info>>

vars == <<dashVars, predVars, fnVars>>

-----------------------------------------------------------------------------
(* Values                                                                  *)

NULL == -1                      \* SQL NULL / NaN of a numeric column
NONE == "None"                  \* SQL NULL / Python None of a text column
Todos == "Todos"

TTL == 60                       \* @st.cache_data(ttl=60)
SidebarHours == 48              \* fetch_latest_readings(hours=48) in the sidebar
NowHour == 100                  \* NOW(), in hours
MaxRuns == 2                    \* reruns (automatic or user-made) explored
MaxReadings == 2                \* how many of the rows below the store may hold

Windows == {24, 48}             \* two entries of the selectbox menu [1,3,6,12,24,48]
Intervals == {15, 60}           \* slider values explored: the default and the maximum

Reading(i, f, c, e, la, lo, k, a, cat) ==
    [id |-> i, fecha |-> f, ciudad |-> c, estado |-> e, latitud |-> la,
     longitud |-> lo, contaminante |-> k, aqi |-> a, categoria |-> cat]

\* The rows the ingestion pipeline may have stored (fecha in hours).
AllReadings ==
    { Reading(1, 100, "Austin", "TX", 30, -97, "O3", 45, "Good"),
      Reading(2, 60, "LA", "CA", 34, -118, "PM25", 120, "USG"),
      Reading(3, 90, "Austin", "TX", 30, -97, "PM25", NULL, NONE) }
Universe == {r \in AllReadings : r.id <= MaxReadings}

-----------------------------------------------------------------------------
(* Helpers on row sets and data frames                                     *)

RECURSIVE SortDesc(_)
\* ORDER BY fecha DESC of a set of rows (fecha values are distinct)
SortDesc(S) ==
    IF S = {} THEN << >>
    ELSE LET m == CHOOSE r \in S : \A q \in S : q.fecha <= r.fecha
         IN <<m>> \o SortDesc(S \ {m})

RECURSIVE SumAqi(_)
SumAqi(S) ==
    IF S = {} THEN 0
    ELSE LET r == CHOOSE x \in S : TRUE IN r.aqi + SumAqi(S \ {r})

MaxAqi(S) == CHOOSE a \in {r.aqi : r \in S} : \A r \in S : r.aqi <= a
MinAqi(S) == CHOOSE a \in {r.aqi : r \in S} : \A r \in S : a <= r.aqi

Range(s) == {s[i] : i \in 1..Len(s)}
NonNull(S) == {r \in S : r.aqi # NULL}

\* WHERE fecha > NOW() - INTERVAL '{hours} hours'
InWindow(rows, hours) == {r \in rows : r.fecha > NowHour - hours}

-----------------------------------------------------------------------------
(* Reading Store Adapter: the four queries as the database evaluates them  *)

QueryLatest(rows, hours) == SortDesc(InWindow(rows, hours))

RECURSIVE OrderByAvgDesc(_)
\* ORDER BY aqi_promedio DESC; the mean is kept as the pair (aqi_sum, total_lecturas)
OrderByAvgDesc(G) ==
    IF G = {} THEN << >>
    ELSE LET m == CHOOSE g \in G : \A h \in G :
                      h.aqi_sum * g.total_lecturas <= g.aqi_sum * h.total_lecturas
         IN <<m>> \o OrderByAvgDesc(G \ {m})

QuerySummaryByState(rows, hours) ==
    LET W == NonNull(InWindow(rows, hours))
        Grp(e) == {r \in W : r.estado = e}
    IN OrderByAvgDesc({ [estado |-> e,
                         total_lecturas |-> Cardinality(Grp(e)),
                         aqi_sum |-> SumAqi(Grp(e)),
                         aqi_maximo |-> MaxAqi(Grp(e)),
                         aqi_minimo |-> MinAqi(Grp(e))] : e \in {r.estado : r \in W} })

RECURSIVE OrderByContaminante(_)
\* ORDER BY contaminante (text order: "O3" < "PM25")
OrderByContaminante(G) ==
    IF G = {} THEN << >>
    ELSE LET m == IF \E g \in G : g.contaminante = "O3"
                  THEN CHOOSE g \in G : g.contaminante = "O3"
                  ELSE CHOOSE g \in G : TRUE
         IN <<m>> \o OrderByContaminante(G \ {m})

QuerySummaryByContaminante(rows, hours) ==
    LET W == NonNull(InWindow(rows, hours))
        Grp(k) == {r \in W : r.contaminante = k}
    IN OrderByContaminante({ [contaminante |-> k,
                              total_lecturas |-> Cardinality(Grp(k)),
                              aqi_sum |-> SumAqi(Grp(k)),
                              aqi_maximo |-> MaxAqi(Grp(k))] : k \in {r.contaminante : r \in W} })

RECURSIVE OrderByHora(_)
\* ORDER BY hora (ascending); rows of one hour are told apart by contaminante
OrderByHora(G) ==
    IF G = {} THEN << >>
    ELSE LET m == CHOOSE g \in G : \A h \in G : g.hora <= h.hora
         IN <<m>> \o OrderByHora(G \ {m})

\* the series query constrained by the sidebar's pollutant filter as well
QueryTimeSeriesMainFilter(rows, contaminante, hours) ==
    LET W0 == {r \in rows : /\ r.fecha > NowHour - hours
                            /\ (contaminante_seleccionado # Todos
                                    => r.contaminante = contaminante_seleccionado)}
        W == IF contaminante # NONE THEN {r \in W0 : r.contaminante = contaminante} ELSE W0
        Grp(h, k) == {r \in W : r.fecha = h /\ r.contaminante = k}
    IN OrderByHora({ [hora |-> g[1], contaminante |-> g[2],
                      aqi_sum |-> SumAqi(NonNull(Grp(g[1], g[2]))),
                      aqi_n |-> Cardinality(NonNull(Grp(g[1], g[2]))),
                      num_lecturas |-> Cardinality(Grp(g[1], g[2]))]
                     : g \in {<<r.fecha, r.contaminante>> : r \in W} })

\* contaminante = NONE: no pollutant constraint
QueryTimeSeries(rows, contaminante, hours) ==
    LET W0 == InWindow(rows, hours)
        W == IF contaminante # NONE THEN {r \in W0 : r.contaminante = contaminante} ELSE W0
        Grp(h, k) == {r \in W : r.fecha = h /\ r.contaminante = k}
    IN OrderByHora({ [hora |-> g[1], contaminante |-> g[2],
                      aqi_sum |-> SumAqi(NonNull(Grp(g[1], g[2]))),
                      aqi_n |-> Cardinality(NonNull(Grp(g[1], g[2]))),
                      num_lecturas |-> Cardinality(Grp(g[1], g[2]))]
                     : g \in {<<r.fecha, r.contaminante>> : r \in W} })

-----------------------------------------------------------------------------
(* Filter Engine and Aggregator (in-memory, on the fetched data frame)     *)

\* the pollutant mask taken on the unfiltered frame
ApplyFiltersLastWins(frame, estado, contaminante) ==
    LET a == IF estado # Todos
             THEN SelectSeq(frame, LAMBDA r : r.estado = estado)
             ELSE frame
    IN IF contaminante # Todos
       THEN SelectSeq(frame, LAMBDA r : r.contaminante = contaminante)
       ELSE a

\* "Todos" read as "any value that is present"
ApplyFiltersDropNull(frame, estado, contaminante) ==
    LET a == IF estado # Todos
             THEN SelectSeq(frame, LAMBDA r : r.estado = estado)
             ELSE SelectSeq(frame, LAMBDA r : r.estado # NONE)
    IN IF contaminante # Todos
       THEN SelectSeq(a, LAMBDA r : r.contaminante = contaminante)
       ELSE SelectSeq(a, LAMBDA r : r.contaminante # NONE)

\* df_filtered = df.copy(); then one boolean-mask selection per active filter
ApplyFilters(frame, estado, contaminante) ==
    LET a == IF estado # Todos
             THEN SelectSeq(frame, LAMBDA r : r.estado = estado)
             ELSE frame
    IN IF contaminante # Todos
       THEN SelectSeq(a, LAMBDA r : r.contaminante = contaminante)
       ELSE a

NoMetrics ==
    [aqi_sum |-> 0, aqi_n |-> 0, max_aqi |-> NULL, total_lecturas |-> 0,
     ciudades |-> 0, estados |-> 0]

\* the row count taken over the rows that have an AQI
MainMetricsCountNonNull(frame) ==
    LET S == Range(frame)
    IN [aqi_sum |-> SumAqi(NonNull(S)),
        aqi_n |-> Cardinality(NonNull(S)),
        max_aqi |-> IF NonNull(S) = {} THEN NULL ELSE MaxAqi(NonNull(S)),
        total_lecturas |-> Cardinality(NonNull(S)),
        ciudades |-> Cardinality({r.ciudad : r \in S} \ {NONE}),
        estados |-> Cardinality({r.estado : r \in S} \ {NONE})]

\* mean()/max() skip NaN, len() counts rows, nunique() skips None
MainMetrics(frame) ==
    LET S == Range(frame)
    IN [aqi_sum |-> SumAqi(NonNull(S)),
        aqi_n |-> Cardinality(NonNull(S)),
        max_aqi |-> IF NonNull(S) = {} THEN NULL ELSE MaxAqi(NonNull(S)),
        total_lecturas |-> Len(frame),
        ciudades |-> Cardinality({r.ciudad : r \in S} \ {NONE}),
        estados |-> Cardinality({r.estado : r \in S} \ {NONE})]

\* ["Todos"] + sorted(df_all[col].dropna().unique().tolist())
EstadosDisponibles(frame) == {Todos} \cup ({r.estado : r \in Range(frame)} \ {NONE})
ContaminantesDisponibles(frame) ==
    {Todos} \cup ({r.contaminante : r \in Range(frame)} \ {NONE})
\* ["Todos"] + sorted(df_filtered['contaminante'].unique().tolist())
ChartOptions(frame) == {Todos} \cup {r.contaminante : r \in Range(frame)}

\* df_filtered['categoria'].value_counts() (rows without a label are not
\* counted), and pct = count / len(df_filtered) * 100 kept as pct_num / pct_den
CategoriaCounts(frame) ==
    { [categoria |-> c,
       count |-> Cardinality({i \in 1..Len(frame) : frame[i].categoria = c}),
       pct_num |-> Cardinality({i \in 1..Len(frame) : frame[i].categoria = c}) * 100,
       pct_den |-> Len(frame)]
      : c \in {r.categoria : r \in Range(frame)} \ {NONE} }

\* GroupBy.last() of one column: the last value that is not null, in fecha order
LastOf(G, col, null) ==
    LET H == {r \in G : r[col] # null}
    IN IF H = {} THEN null
       ELSE (CHOOSE r \in H : \A q \in H : q.fecha <= r.fecha)[col]

\* df_filtered.sort_values('fecha').groupby('ciudad').last().reset_index():
\* one row per city (rows without a city form no group), column by column
DfMap(frame) ==
    LET Grp(c) == {r \in Range(frame) : r.ciudad = c}
    IN { [ciudad |-> c,
          id |-> LastOf(Grp(c), "id", NULL),
          fecha |-> LastOf(Grp(c), "fecha", NULL),
          estado |-> LastOf(Grp(c), "estado", NONE),
          latitud |-> LastOf(Grp(c), "latitud", NULL),
          longitud |-> LastOf(Grp(c), "longitud", NULL),
          contaminante |-> LastOf(Grp(c), "contaminante", NONE),
          aqi |-> LastOf(Grp(c), "aqi", NULL),
          categoria |-> LastOf(Grp(c), "categoria", NONE)]
         : c \in {r.ciudad : r \in Range(frame)} \ {NONE} }

-----------------------------------------------------------------------------
(* Category classifier.  An AQI argument is the fraction num / den (a mean  *)
(* is sum / count); den = 0 stands for NaN and None.                       *)

NaN == [num |-> 0, den |-> 0]
NoInfo == <<"", "", "">>

GetAqiCategoryInfoExclusive(a) ==
    IF a.den = 0 THEN <<"Unknown", "#808080", "white">>
    ELSE IF a.num < 50 * a.den THEN <<"Good", "#00E400", "green">>
    ELSE IF a.num < 100 * a.den THEN <<"Moderate", "#FFFF00", "yellow">>
    ELSE IF a.num < 150 * a.den
         THEN <<"Unhealthy for Sensitive Groups", "#FF7E00", "orange">>
    ELSE IF a.num < 200 * a.den THEN <<"Unhealthy", "#FF0000", "red">>
    ELSE IF a.num < 300 * a.den THEN <<"Very Unhealthy", "#8F3F97", "purple">>
    ELSE <<"Hazardous", "#7E0023", "brown">>

\* get_aqi_category_info(aqi): (name, color, emoji)
GetAqiCategoryInfo(a) ==
    IF a.den = 0 THEN <<"Unknown", "#808080", "white">>
    ELSE IF a.num <= 50 * a.den THEN <<"Good", "#00E400", "green">>
    ELSE IF a.num <= 100 * a.den THEN <<"Moderate", "#FFFF00", "yellow">>
    ELSE IF a.num <= 150 * a.den
         THEN <<"Unhealthy for Sensitive Groups", "#FF7E00", "orange">>
    ELSE IF a.num <= 200 * a.den THEN <<"Unhealthy", "#FF0000", "red">>
    ELSE IF a.num <= 300 * a.den THEN <<"Very Unhealthy", "#8F3F97", "purple">>
    ELSE <<"Hazardous", "#7E0023", "brown">>

-----------------------------------------------------------------------------
(* st.cache_data(ttl=60): one entry per (function, arguments)              *)

Keys ==
    {<<f, NONE, h>> : f \in {"latest", "by_state", "by_cont"}, h \in Windows \cup {SidebarHours}}
    \cup {<<"ts", k, h>> : k \in {NONE} \cup {r.contaminante : r \in Universe}, h \in Windows}

NoEntry == [rows |-> << >>, age |-> TTL]

\* dashboard_calidad_aire.py decorates the four fetch functions; part_000 does not
UsesCache == program = "dashboard_calidad_aire"

CacheHit(key) == UsesCache /\ cache[key].age < TTL

CacheStore(c, key, rows) ==
    IF UsesCache THEN [c EXCEPT ![key] = [rows |-> rows, age |-> 0]]
    ELSE c

\* dt seconds pass: entries age, and an entry whose ttl has run out is dropped
Elapse(c, dt) ==
    [k \in DOMAIN c |-> IF c[k].age + dt >= TTL THEN NoEntry
                        ELSE [c[k] EXCEPT !.age = @ + dt]]

-----------------------------------------------------------------------------
(* The dashboard script: one run = sidebar, then one pass of the loop body *)

DashInit ==
    /\ program \in {"dashboard_calidad_aire", "part_000"}
    /\ tab_selection = "Dashboard"
    /\ db \in SUBSET Universe
    /\ auto_refresh = (program = "part_000")   \* checkbox default: False / True
    /\ refresh_interval = 15
    /\ time_window = 24
    /\ estado_seleccionado = Todos
    /\ contaminante_seleccionado = Todos
    /\ selected_cont_chart = Todos
    /\ df_all = << >> /\ df = << >> /\ df_filtered = << >>
    /\ metrics = NoMetrics
    /\ df_map = {} /\ categoria_counts = {}
    /\ summary_state = << >> /\ summary_cont = << >> /\ df_ts = << >>
    /\ rendered = {} /\ published = 0
    /\ cache = [k \in Keys |-> NoEntry]
    /\ pc = "sidebar" /\ iteration = 0 /\ trigger = "user"
    /\ queryLog = << >>
    /\ runs = 0 /\ slept = 0

\* The script starts again from its first line.
StartRun(trig, dt, c) ==
    /\ runs < MaxRuns /\ runs' = runs + 1
    /\ slept' = dt
    /\ pc' = "sidebar" /\ iteration' = 0 /\ trigger' = trig
    /\ df' = << >> /\ df_filtered' = << >>
    /\ metrics' = NoMetrics
    /\ df_map' = {} /\ categoria_counts' = {}
    /\ summary_state' = << >> /\ summary_cont' = << >> /\ df_ts' = << >>
    /\ rendered' = {} /\ published' = 0
    /\ queryLog' = << >>
    /\ cache' = c

AfterFetchNoBreak(rows) == "filter"
\* a non-empty frame goes to the aggregation unfiltered
AfterFetchSkipFilter(rows) == IF rows = << >> THEN "empty" ELSE "aggregate"
\* if df.empty: st.warning(...); break
AfterFetch(rows) == IF rows = << >> THEN "empty" ELSE "filter"

AfterFilterNoBreak(rows) == "aggregate"
\* if df_filtered.empty: st.warning(...); break
AfterFilter(rows) == IF rows = << >> THEN "empty" ELSE "aggregate"

AfterCycleNoBreak(auto) == "sleep"
\* if not auto_refresh: break
AfterCycle(auto) == IF ~auto THEN "idle" ELSE "sleep"

\* st.rerun() without the sleep
SleepSecondsNone == refresh_interval - refresh_interval
\* time.sleep(refresh_interval)
SleepSeconds == refresh_interval

\* An unhandled exception of pd.read_sql / psycopg2.connect ends the run.
Raise == pc' = "error"

config == <<auto_refresh, refresh_interval, time_window,
            estado_seleccionado, contaminante_seleccionado, selected_cont_chart>>

\* The ingestion pipeline stores a new row (rows are immutable once stored).
Ingest ==
    /\ \E r \in Universe \ db : db' = db \cup {r}
    /\ UNCHANGED <<program, tab_selection, config, df_all, df, df_filtered, metrics, summary_state,
                   summary_cont, df_ts, rendered, published, cache, pc, iteration,
                   trigger, queryLog, runs, slept>>
    /\ UNCHANGED <<df_map, categoria_counts>>
    /\ UNCHANGED <<predVars, fnVars>>

\* Sidebar: df_all = fetch_latest_readings(hours=48), then the filter selectboxes.
Sidebar ==
    /\ pc = "sidebar"
    /\ tab_selection = "Dashboard"
    /\ LET key == <<"latest", NONE, SidebarHours>> IN
       \/ /\ CacheHit(key)
          /\ df_all' = cache[key].rows
          /\ pc' = "fetch" /\ iteration' = 1
          /\ UNCHANGED <<cache, queryLog>>
       \/ /\ ~CacheHit(key)
          /\ df_all' = QueryLatest(db, SidebarHours)
          /\ cache' = CacheStore(cache, key, df_all')
          /\ queryLog' = Append(queryLog, "latest_sidebar")
          /\ pc' = "fetch" /\ iteration' = 1
       \/ /\ ~CacheHit(key)
          /\ Raise
          /\ queryLog' = Append(queryLog, "latest_sidebar")
          /\ UNCHANGED <<df_all, cache, iteration>>
    /\ UNCHANGED <<program, tab_selection, db, config, df, df_filtered, metrics, summary_state,
                   summary_cont, df_ts, rendered, published, trigger, runs, slept>>
    /\ UNCHANGED <<df_map, categoria_counts>>
    /\ UNCHANGED <<predVars, fnVars>>

\* Loop body, first statement: df = fetch_latest_readings(hours=time_window);
\* an empty frame shows the warning and breaks out of the loop.
Fetch ==
    /\ pc = "fetch"
    /\ LET key == <<"latest", NONE, time_window>>
           Continue(rows) ==
               /\ df' = rows
               /\ pc' = AfterFetch(rows)
               /\ rendered' = IF pc' = "empty" THEN rendered \cup {"warning_no_data"}
                               ELSE rendered
       IN
       \/ /\ CacheHit(key)
          /\ Continue(cache[key].rows)
          /\ UNCHANGED <<cache, queryLog>>
       \/ /\ ~CacheHit(key)
          /\ Continue(QueryLatest(db, time_window))
          /\ cache' = CacheStore(cache, key, QueryLatest(db, time_window))
          /\ queryLog' = Append(queryLog, "latest")
       \/ /\ ~CacheHit(key)
          /\ Raise
          /\ queryLog' = Append(queryLog, "latest")
          /\ UNCHANGED <<df, rendered, cache>>
    /\ UNCHANGED <<program, tab_selection, db, config, df_all, df_filtered, metrics, summary_state,
                   summary_cont, df_ts, published, iteration, trigger, runs, slept>>
    /\ UNCHANGED <<df_map, categoria_counts>>
    /\ UNCHANGED <<predVars, fnVars>>

\* Apply the two filters; an empty result shows the warning and breaks.
Filter ==
    /\ pc = "filter"
    /\ df_filtered' = ApplyFilters(df, estado_seleccionado, contaminante_seleccionado)
    /\ pc' = AfterFilter(df_filtered')
    /\ rendered' = IF pc' = "empty" THEN rendered \cup {"warning_no_match"} ELSE rendered
    /\ UNCHANGED <<program, tab_selection, db, config, df_all, df, metrics, summary_state, summary_cont,
                   df_ts, published, cache, iteration, trigger, queryLog, runs, slept>>
    /\ UNCHANGED <<df_map, categoria_counts>>
    /\ UNCHANGED <<predVars, fnVars>>

\* Main metrics, map, histogram and category distribution of df_filtered.
Aggregate ==
    /\ pc = "aggregate"
    /\ metrics' = MainMetrics(df_filtered)
    /\ df_map' = DfMap(df_filtered)
    /\ categoria_counts' = CategoriaCounts(df_filtered)
    /\ rendered' = rendered \cup {"metrics", "map", "hist", "categorias"}
    /\ pc' = "summary_state"
    /\ UNCHANGED <<program, tab_selection, db, config, df_all, df, df_filtered, summary_state,
                   summary_cont, df_ts, published, cache, iteration, trigger, queryLog, runs, slept>>
    /\ UNCHANGED <<predVars, fnVars>>

\* summary_state = fetch_summary_by_state(hours=time_window); bar chart if not empty
SummaryState ==
    /\ pc = "summary_state"
    /\ LET key == <<"by_state", NONE, time_window>>
           Continue(rows) ==
               /\ summary_state' = rows
               /\ rendered' = IF rows # << >> THEN rendered \cup {"by_state"} ELSE rendered
               /\ pc' = "summary_cont"
       IN
       \/ /\ CacheHit(key)
          /\ Continue(cache[key].rows)
          /\ UNCHANGED <<cache, queryLog>>
       \/ /\ ~CacheHit(key)
          /\ Continue(QuerySummaryByState(db, time_window))
          /\ cache' = CacheStore(cache, key, QuerySummaryByState(db, time_window))
          /\ queryLog' = Append(queryLog, "by_state")
       \/ /\ ~CacheHit(key)
          /\ Raise
          /\ queryLog' = Append(queryLog, "by_state")
          /\ UNCHANGED <<summary_state, rendered, cache>>
    /\ UNCHANGED <<program, tab_selection, db, config, df_all, df, df_filtered, metrics, summary_cont,
                   df_ts, published, iteration, trigger, runs, slept>>
    /\ UNCHANGED <<df_map, categoria_counts>>
    /\ UNCHANGED <<predVars, fnVars>>

\* summary_cont = fetch_summary_by_contaminante(hours=time_window)
SummaryCont ==
    /\ pc = "summary_cont"
    /\ LET key == <<"by_cont", NONE, time_window>>
           Continue(rows) ==
               /\ summary_cont' = rows
               /\ rendered' = IF rows # << >> THEN rendered \cup {"by_cont"} ELSE rendered
               /\ pc' = "time_series"
       IN
       \/ /\ CacheHit(key)
          /\ Continue(cache[key].rows)
          /\ UNCHANGED <<cache, queryLog>>
       \/ /\ ~CacheHit(key)
          /\ Continue(QuerySummaryByContaminante(db, time_window))
          /\ cache' = CacheStore(cache, key, QuerySummaryByContaminante(db, time_window))
          /\ queryLog' = Append(queryLog, "by_cont")
       \/ /\ ~CacheHit(key)
          /\ Raise
          /\ queryLog' = Append(queryLog, "by_cont")
          /\ UNCHANGED <<summary_cont, rendered, cache>>
    /\ UNCHANGED <<program, tab_selection, db, config, df_all, df, df_filtered, metrics, summary_state,
                   df_ts, published, iteration, trigger, runs, slept>>
    /\ UNCHANGED <<df_map, categoria_counts>>
    /\ UNCHANGED <<predVars, fnVars>>

\* The chart selectbox (a stored choice no longer offered falls back to "Todos"),
\* then df_ts = fetch_time_series(contaminante=ts_cont, hours=time_window).
TimeSeries ==
    /\ pc = "time_series"
    /\ selected_cont_chart' = IF selected_cont_chart \in ChartOptions(df_filtered)
                              THEN selected_cont_chart ELSE Todos
    /\ LET ts_cont == IF selected_cont_chart' = Todos THEN NONE ELSE selected_cont_chart'
           key == <<"ts", ts_cont, time_window>>
           Continue(rows) ==
               /\ df_ts' = rows
               /\ rendered' = rendered \cup {"chart_select"}
                               \cup (IF rows # << >> THEN {"series"} ELSE {})
               /\ pc' = "table"
       IN
       \/ /\ CacheHit(key)
          /\ Continue(cache[key].rows)
          /\ UNCHANGED <<cache, queryLog>>
       \/ /\ ~CacheHit(key)
          /\ Continue(QueryTimeSeries(db, ts_cont, time_window))
          /\ cache' = CacheStore(cache, key, QueryTimeSeries(db, ts_cont, time_window))
          /\ queryLog' = Append(queryLog, "ts")
       \/ /\ ~CacheHit(key)
          /\ Raise
          /\ queryLog' = Append(queryLog, "ts")
          /\ rendered' = rendered \cup {"chart_select"}
          /\ UNCHANGED <<df_ts, cache>>
    /\ UNCHANGED <<program, tab_selection, db, auto_refresh, refresh_interval, time_window,
                   estado_seleccionado, contaminante_seleccionado, df_all, df,
                   df_filtered, metrics, summary_state, summary_cont, published,
                   iteration, trigger, runs, slept>>
    /\ UNCHANGED <<df_map, categoria_counts>>
    /\ UNCHANGED <<predVars, fnVars>>

\* the table step reading the store once more
TableWithQuery ==
    /\ pc = "table"
    /\ rendered' = rendered \cup {"table", "caption"}
    /\ published' = published + 1
    /\ queryLog' = Append(queryLog, "latest")
    /\ pc' = "decide"
    /\ UNCHANGED <<program, tab_selection, db, config, df_all, df, df_filtered, metrics, summary_state,
                   summary_cont, df_ts, cache, iteration, trigger, runs, slept>>
    /\ UNCHANGED <<df_map, categoria_counts>>
    /\ UNCHANGED <<predVars, fnVars>>

\* Table of recent readings and the "Dashboard actualizado" caption: the
\* placeholder container is complete.
Table ==
    /\ pc = "table"
    /\ rendered' = rendered \cup {"table", "caption"}
    /\ published' = published + 1
    /\ pc' = "decide"
    /\ UNCHANGED <<program, tab_selection, db, config, df_all, df, df_filtered, metrics, summary_state,
                   summary_cont, df_ts, cache, iteration, trigger, queryLog, runs, slept>>
    /\ UNCHANGED <<df_map, categoria_counts>>
    /\ UNCHANGED <<predVars, fnVars>>

\* if not auto_refresh: break
Decide ==
    /\ pc = "decide"
    /\ pc' = AfterCycle(auto_refresh)
    /\ UNCHANGED <<program, tab_selection, db, config, df_all, df, df_filtered, metrics, summary_state,
                   summary_cont, df_ts, rendered, published, cache, iteration, trigger,
                   queryLog, runs, slept>>
    /\ UNCHANGED <<df_map, categoria_counts>>
    /\ UNCHANGED <<predVars, fnVars>>

\* time.sleep(refresh_interval); st.rerun()
SleepRerun ==
    /\ pc = "sleep"
    /\ StartRun("auto", SleepSeconds, Elapse(cache, SleepSeconds))
    /\ UNCHANGED <<program, tab_selection, db, config, df_all>>
    /\ UNCHANGED <<predVars, fnVars>>

\* a filter widget changing under a run that goes on
UserChangeInPlace ==
    /\ \/ /\ \E e \in EstadosDisponibles(df_all) \ {estado_seleccionado} :
                 estado_seleccionado' = e
          /\ UNCHANGED <<time_window, contaminante_seleccionado>>
       \/ /\ \E k \in ContaminantesDisponibles(df_all) \ {contaminante_seleccionado} :
                 contaminante_seleccionado' = k
          /\ UNCHANGED <<time_window, estado_seleccionado>>
       \/ /\ \E w \in Windows \ {time_window} : time_window' = w
          /\ UNCHANGED <<estado_seleccionado, contaminante_seleccionado>>
    /\ UNCHANGED <<program, tab_selection, db, auto_refresh, refresh_interval,
                   selected_cont_chart, df_all, df, df_filtered, metrics, summary_state,
                   summary_cont, df_ts, rendered, published, cache, pc, iteration,
                   trigger, queryLog, runs, slept>>
    /\ UNCHANGED <<df_map, categoria_counts>>
    /\ UNCHANGED <<predVars, fnVars>>

\* The user changes one widget (a sidebar widget or the chart selectbox):
\* Streamlit abandons the run in progress and starts the script again.
UserChange ==
    /\ \/ /\ auto_refresh' = ~auto_refresh
          /\ UNCHANGED <<refresh_interval, time_window, estado_seleccionado,
                         contaminante_seleccionado, selected_cont_chart>>
       \/ /\ \E i \in Intervals \ {refresh_interval} : refresh_interval' = i
          /\ UNCHANGED <<auto_refresh, time_window, estado_seleccionado,
                         contaminante_seleccionado, selected_cont_chart>>
       \/ /\ \E w \in Windows \ {time_window} : time_window' = w
          /\ UNCHANGED <<auto_refresh, refresh_interval, estado_seleccionado,
                         contaminante_seleccionado, selected_cont_chart>>
       \/ /\ \E e \in EstadosDisponibles(df_all) \ {estado_seleccionado} :
                 estado_seleccionado' = e
          /\ UNCHANGED <<auto_refresh, refresh_interval, time_window,
                         contaminante_seleccionado, selected_cont_chart>>
       \/ /\ \E k \in ContaminantesDisponibles(df_all) \ {contaminante_seleccionado} :
                 contaminante_seleccionado' = k
          /\ UNCHANGED <<auto_refresh, refresh_interval, time_window,
                         estado_seleccionado, selected_cont_chart>>
       \/ /\ "chart_select" \in rendered
          /\ \E c \in ChartOptions(df_filtered) \ {selected_cont_chart} :
                 selected_cont_chart' = c
          /\ UNCHANGED <<auto_refresh, refresh_interval, time_window,
                         estado_seleccionado, contaminante_seleccionado>>
    /\ StartRun("user", 0, cache)
    /\ UNCHANGED <<program, tab_selection, db, df_all>>
    /\ UNCHANGED <<predVars, fnVars>>

\* The finished script waits for the user for longer than the cache's ttl.
Wait ==
    /\ pc \in {"idle", "empty", "error"}
    /\ cache' = Elapse(cache, TTL)
    /\ cache' # cache
    /\ UNCHANGED <<program, tab_selection, db, config, df_all, df, df_filtered, metrics, summary_state,
                   summary_cont, df_ts, rendered, published, pc, iteration, trigger,
                   queryLog, runs, slept>>
    /\ UNCHANGED <<df_map, categoria_counts>>
    /\ UNCHANGED <<predVars, fnVars>>

Next ==
    \/ Ingest
    \/ Sidebar
    \/ Fetch
    \/ Filter
    \/ Aggregate
    \/ SummaryState
    \/ SummaryCont
    \/ TimeSeries
    \/ Table
    \/ Decide
    \/ SleepRerun
    \/ UserChange
    \/ Wait

-----------------------------------------------------------------------------
(* The prediction tab ("Predicciones ML")                                  *)

PredValues == {42, 50, 52, 58, 62, 70}      \* AQI values a model may return
LatValues == {40, 41}                       \* number_input, default 40.0
LonValues == {-100}                         \* number_input, default -100.0
ErrorText == "ValueError"                   \* str(e) of a failed predict call

Abs(x) == IF x < 0 THEN -x ELSE x
EmptyDict == [k \in {} |-> NULL]
\* dict.get(key): None (NULL) when the key is absent
Get(d, k) == IF k \in DOMAIN d THEN d[k] ELSE NULL

\* load_ml_models(): one try block around both loads.  A file is "missing",
\* "ok" (joblib.load returns the model) or "corrupt" (joblib.load raises).
LoadMlModels(files) ==
    IF files.modelo1 = "corrupt" \/ files.modelo2 = "corrupt"
    THEN [modelo1 |-> NONE, modelo2 |-> NONE]
    ELSE [modelo1 |-> IF files.modelo1 = "ok" THEN "Random Forest" ELSE NONE,
          modelo2 |-> IF files.modelo2 = "ok" THEN "XGBoost + IsolationForest" ELSE NONE]

AfterGuardNoStop(m) == "unique"
\* if models['modelo1'] is None and models['modelo2'] is None: ...; st.stop()
AfterGuard(m) == IF m.modelo1 = NONE /\ m.modelo2 = NONE THEN "stopped" ELSE "unique"

\* Sidebar: one status line per model
SidebarModelStatus(m) ==
    [modelo1 |-> IF m.modelo1 # NONE THEN "cargado" ELSE "no cargado",
     modelo2 |-> IF m.modelo2 # NONE THEN "cargado" ELSE "no cargado"]

\* The frames predict_aqi builds; fecha = NULL and categoria = NONE mean "not given".
DataModelo1(ciudad, estado, contaminante, latitud, longitud) ==
    [ciudad |-> ciudad, estado |-> estado, contaminante |-> contaminante,
     latitud |-> latitud, longitud |-> longitud]

\* the category column filled with the default whatever the request says
DataModelo2AlwaysGood(ciudad, estado, contaminante, latitud, longitud, fecha, categoria) ==
    [ciudad |-> ciudad, estado |-> estado, contaminante |-> contaminante,
     latitud |-> latitud, longitud |-> longitud,
     categoria |-> "Good",
     fecha |-> IF fecha # NULL THEN fecha ELSE NowHour]

DataModelo2(ciudad, estado, contaminante, latitud, longitud, fecha, categoria) ==
    [ciudad |-> ciudad, estado |-> estado, contaminante |-> contaminante,
     latitud |-> latitud, longitud |-> longitud,
     categoria |-> IF categoria # NONE /\ categoria # "" THEN categoria ELSE "Good",
     fecha |-> IF fecha # NULL THEN fecha ELSE NowHour]

\* the except branch recording the error text only
PredictOneErrorOnly(name, model, out) ==
    IF model # NONE
    THEN IF out.ok
         THEN name :> out.value
         ELSE (name \o "_error") :> ErrorText
    ELSE EmptyDict

\* One model's part of predict_aqi: out is what model.predict does on this call,
\* [ok |-> TRUE, value |-> v] or [ok |-> FALSE, value |-> NULL] (it raises).
PredictOne(name, model, out) ==
    IF model # NONE
    THEN IF out.ok
         THEN name :> out.value
         ELSE (name :> NULL) @@ ((name \o "_error") :> ErrorText)
    ELSE EmptyDict

\* one try block around both calls: a failure of modelo1 skips modelo2
PredictAqiOneTry(m, out1, out2) ==
    IF m.modelo1 # NONE /\ ~out1.ok
    THEN PredictOne("modelo1", m.modelo1, out1)
    ELSE PredictOne("modelo1", m.modelo1, out1) @@ PredictOne("modelo2", m.modelo2, out2)
\* predict_aqi(models, ...): the returned dict
PredictAqi(m, out1, out2) ==
    PredictOne("modelo1", m.modelo1, out1) @@ PredictOne("modelo2", m.modelo2, out2)

\* the model.predict calls predict_aqi makes, in order
Invocations(m) ==
    (IF m.modelo1 # NONE THEN <<"modelo1">> ELSE << >>)
    \o (IF m.modelo2 # NONE THEN <<"modelo2">> ELSE << >>)

\* Result columns: the prediction card or the error line of each model
ShowResult(p, name) ==
    IF Get(p, name) # NULL THEN "card"
    ELSE IF (name \o "_error") \in DOMAIN p THEN "error" ELSE "error_desconocido"

AgreementInclusive(diff) ==
    IF diff <= 10 THEN "Alta" ELSE IF diff <= 20 THEN "Media" ELSE "Baja"
\* agreement = "Alta" if diff < 10 else ("Media" if diff < 20 else "Baja")
Agreement(diff) == IF diff < 10 THEN "Alta" ELSE IF diff < 20 THEN "Media" ELSE "Baja"

NoComparison == [rendered |-> FALSE, diff |-> 0, avg_num |-> 0, avg_den |-> 1,
                 agreement |-> ""]

\* The comparison block; avg_pred is kept as the fraction avg_num / avg_den.
Compare(p) ==
    IF Get(p, "modelo1") # NULL /\ Get(p, "modelo2") # NULL
    THEN [rendered |-> TRUE,
          diff |-> Abs(p["modelo1"] - p["modelo2"]),
          avg_num |-> p["modelo1"] + p["modelo2"], avg_den |-> 2,
          agreement |-> Agreement(Abs(p["modelo1"] - p["modelo2"]))]
    ELSE NoComparison

Outcomes == [ok : {TRUE}, value : PredValues] \cup {[ok |-> FALSE, value |-> NULL]}
NoOutcome == [ok |-> FALSE, value |-> NULL]

\* st.selectbox(label, options): one of the options, None when there is none
Options(S) == IF S = {} THEN {NONE} ELSE S

NoHanded == [modelo1 |-> DataModelo1(NONE, NONE, NONE, 0, 0),
             modelo2 |-> DataModelo2(NONE, NONE, NONE, 0, 0, NULL, NONE)]

PredInit ==
    /\ artifacts \in [modelo1 : {"missing", "ok", "corrupt"},
                      modelo2 : {"missing", "ok", "corrupt"}]
    /\ models = [modelo1 |-> NONE, modelo2 |-> NONE]
    /\ ppc = "load"
    /\ sidebarStatus = [modelo1 |-> "", modelo2 |-> ""]
    /\ categorias = {}
    /\ pred_categoria = NONE
    /\ predictions = EmptyDict
    /\ invoked = << >>
    /\ outcomes = [modelo1 |-> NoOutcome, modelo2 |-> NoOutcome]
    /\ handed = NoHanded
    /\ shown = [modelo1 |-> "", modelo2 |-> ""]
    /\ comparison = NoComparison
    /\ predQueries = << >>

\* models = load_ml_models() (st.cache_resource: evaluated once), then the sidebar
LoadModels ==
    /\ ppc = "load"
    /\ models' = LoadMlModels(artifacts)
    /\ sidebarStatus' = SidebarModelStatus(models')
    /\ ppc' = "guard"
    /\ UNCHANGED <<artifacts, categorias, pred_categoria, predictions, invoked, outcomes, handed,
                   shown, comparison, predQueries>>
    /\ UNCHANGED <<dashVars, fnVars>>

\* if both models are None: st.error, st.info, st.stop()
Guard ==
    /\ ppc = "guard"
    /\ ppc' = AfterGuard(models)
    /\ UNCHANGED <<artifacts, models, sidebarStatus, categorias, pred_categoria,
                   predictions, invoked, outcomes, handed, shown, comparison, predQueries>>
    /\ UNCHANGED <<dashVars, fnVars>>

\* get_unique_values(): four DISTINCT queries (uncached), then the input widgets
GetUniqueValues ==
    /\ ppc = "unique"
    /\ \/ /\ predQueries' = <<"ciudad", "estado", "contaminante", "categoria">>
          /\ categorias' = {r.categoria : r \in db}
          /\ pred_categoria' = NONE
          /\ ppc' = "form"
       \/ /\ \E n \in 1..4 :
                predQueries' = SubSeq(<<"ciudad", "estado", "contaminante", "categoria">>, 1, n)
          /\ ppc' = "error"
          /\ UNCHANGED <<categorias, pred_categoria>>
    /\ UNCHANGED <<artifacts, models, sidebarStatus, predictions, invoked, outcomes, handed, shown,
                   comparison>>
    /\ UNCHANGED <<dashVars, fnVars>>

\* The button: predict_aqi(...) with the widgets' values, then results and comparison
PressPredict ==
    /\ ppc = "form"
    /\ \E ciudad \in Options({r.ciudad : r \in db}),
          estado \in Options({r.estado : r \in db}),
          contaminante \in Options({r.contaminante : r \in db}),
          la \in LatValues, lo \in LonValues,
          cat \in (IF models.modelo2 # NONE THEN Options(categorias) ELSE {NONE}),
          out1 \in (IF models.modelo1 # NONE THEN Outcomes ELSE {NoOutcome}),
          out2 \in (IF models.modelo2 # NONE THEN Outcomes ELSE {NoOutcome}) :
        /\ pred_categoria' = cat
        /\ handed' = [modelo1 |-> DataModelo1(ciudad, estado, contaminante, la, lo),
                      modelo2 |-> DataModelo2(ciudad, estado, contaminante, la, lo,
                                              NULL, cat)]
        /\ predictions' = PredictAqi(models, out1, out2)
        /\ invoked' = Invocations(models)
        /\ outcomes' = [modelo1 |-> out1, modelo2 |-> out2]
    /\ shown' = [modelo1 |-> ShowResult(predictions', "modelo1"),
                 modelo2 |-> ShowResult(predictions', "modelo2")]
    /\ comparison' = Compare(predictions')
    /\ ppc' = "result"
    /\ UNCHANGED <<artifacts, models, sidebarStatus, categorias, predQueries>>
    /\ UNCHANGED <<dashVars, fnVars>>

\* Any further widget interaction runs the script again (models stay cached).
PredRerun ==
    /\ ppc \in {"result", "form", "error", "stopped"}
    /\ ppc' = "guard"
    /\ predictions' = EmptyDict /\ invoked' = << >> /\ handed' = NoHanded
    /\ outcomes' = [modelo1 |-> NoOutcome, modelo2 |-> NoOutcome]
    /\ shown' = [modelo1 |-> "", modelo2 |-> ""]
    /\ comparison' = NoComparison
    /\ predQueries' = << >>
    /\ UNCHANGED <<artifacts, models, sidebarStatus, categorias, pred_categoria>>
    /\ UNCHANGED <<dashVars, fnVars>>

PredSpecNext ==
    \/ LoadModels
    \/ Guard
    \/ GetUniqueValues
    \/ PressPredict
    \/ PredRerun

\* While one tab's script runs, the other tab's state stays as it was.
PredIdle ==
    /\ artifacts = [modelo1 |-> "ok", modelo2 |-> "ok"]
    /\ models = LoadMlModels(artifacts)
    /\ ppc = "other_tab"
    /\ sidebarStatus = [modelo1 |-> "", modelo2 |-> ""]
    /\ categorias = {}
    /\ pred_categoria = NONE
    /\ predictions = EmptyDict
    /\ invoked = << >>
    /\ outcomes = [modelo1 |-> NoOutcome, modelo2 |-> NoOutcome]
    /\ handed = NoHanded
    /\ shown = [modelo1 |-> "", modelo2 |-> ""]
    /\ comparison = NoComparison
    /\ predQueries = << >>

\* The prediction tab is selected: the dashboard branch of the script is not run.
DashIdle ==
    /\ program = "dashboard_calidad_aire"
    /\ tab_selection = "Predicciones ML"
    /\ db \in SUBSET Universe
    /\ auto_refresh = FALSE /\ refresh_interval = 15 /\ time_window = 24
    /\ estado_seleccionado = Todos /\ contaminante_seleccionado = Todos
    /\ selected_cont_chart = Todos
    /\ df_all = << >> /\ df = << >> /\ df_filtered = << >>
    /\ metrics = NoMetrics
    /\ df_map = {} /\ categoria_counts = {}
    /\ summary_state = << >> /\ summary_cont = << >> /\ df_ts = << >>
    /\ rendered = {} /\ published = 0
    /\ cache = [k \in Keys |-> NoEntry]
    /\ pc = "other_tab" /\ iteration = 0 /\ trigger = "user"
    /\ queryLog = << >>
    /\ runs = 0 /\ slept = 0

\* No call of get_aqi_category_info has returned yet.
FnIdle == aqi = NaN /\ info = NoInfo

Init == DashInit /\ PredIdle /\ FnIdle
Spec == Init /\ [][Next]_vars

PredSpecInit == DashIdle /\ PredInit /\ FnIdle
PredSpec == PredSpecInit /\ [][PredSpecNext]_vars

-----------------------------------------------------------------------------
(* The in-memory functions on their own: the filter, the aggregator and    *)
(* the classifier applied to frames and AQI values drawn from bounded sets *)

MaxRows == 5                    \* how many of the rows below a fetched frame may hold

FnAllReadings ==
    { Reading(1, 99, "Austin", "TX", 30, -97, "O3", 45, "Good"),
      Reading(2, 98, "Austin", "TX", 30, -97, "O3", 55, "Moderate"),
      Reading(3, 100, "Austin", "TX", 30, -97, "PM25", NULL, NONE),
      Reading(4, 97, "LA", "CA", 34, -118, "PM25", 120, "USG"),
      Reading(5, 96, "Reno", NONE, 39, -119, NONE, 30, "Good"),
      Reading(6, 95, "LA", "CA", 34, -118, "O3", 301, NONE) }
FnReadings == {r \in FnAllReadings : r.id <= MaxRows}

\* AQI arguments in hundredths: every band's upper boundary, the value just
\* above it, a negative value, and NaN
AqiInputs ==
    {NaN} \cup { [num |-> n, den |-> 100] :
                  n \in {-100, 0, 4999, 5000, 5001, 10000, 10001, 15000, 15001,
                         20000, 20001, 30000, 30001, 50000} }

\* part_000 has fetched a non-empty frame and is about to filter it.
FnInit ==
    /\ program = "part_000"
    /\ tab_selection = "Dashboard"
    /\ db \in SUBSET FnReadings /\ db # {}
    /\ auto_refresh = TRUE /\ refresh_interval = 15 /\ time_window = 24
    /\ df_all = QueryLatest(db, SidebarHours)
    /\ df = QueryLatest(db, time_window)
    /\ estado_seleccionado \in EstadosDisponibles(df_all)
    /\ contaminante_seleccionado \in ContaminantesDisponibles(df_all)
    /\ selected_cont_chart = Todos
    /\ df_filtered = << >>
    /\ metrics = NoMetrics
    /\ df_map = {} /\ categoria_counts = {}
    /\ summary_state = << >> /\ summary_cont = << >> /\ df_ts = << >>
    /\ rendered = {} /\ published = 0
    /\ cache = [k \in Keys |-> NoEntry]
    /\ pc = "filter" /\ iteration = 1 /\ trigger = "user"
    /\ queryLog = <<"latest_sidebar", "latest">>
    /\ runs = 0 /\ slept = 0

\* One call of get_aqi_category_info (metric delta, table rows, prediction cards).
Classify ==
    /\ \E a \in AqiInputs :
          /\ aqi' = a
          /\ info' = GetAqiCategoryInfo(a)
    /\ UNCHANGED <<dashVars, predVars>>

FnNext ==
    \/ Filter
    \/ Aggregate
    \/ Classify

FnSpecInit == FnInit /\ PredIdle /\ FnIdle
FnSpec == FnSpecInit /\ [][FnNext]_vars

-----------------------------------------------------------------------------
(* Properties of the refresh loop (checked under Spec)                     *)

ViewShapes == {"metrics", "map", "hist", "categorias", "by_state", "by_cont",
               "series", "table", "caption"}
AfterFilterPcs == {"aggregate", "summary_state", "summary_cont", "time_series", "table",
                   "decide", "sleep", "idle"}
\* from a halted run only the user starts the script again
OnlyUserRestarts(at) ==
    pc = at => (pc' = at \/ (pc' = "sidebar" /\ trigger' = "user"))

\* C1: a cycle whose raw fetch returns no rows goes to Empty and halts: nothing
\* is published, neither the filter nor the aggregation nor a summary query is
\* run, and no automatic rerun follows, with auto-refresh on or off.
C1_EmptyWindowHalts ==
    /\ [](pc = "empty" /\ df = << >> =>
            /\ published = 0
            /\ df_filtered = << >> /\ metrics = NoMetrics
            /\ rendered = {"warning_no_data"}
            /\ Range(queryLog) \subseteq {"latest_sidebar", "latest"})
    /\ [](pc \in {"filter"} \cup AfterFilterPcs => df # << >>)
    /\ [][pc = "fetch" /\ pc' \notin {"fetch", "sidebar", "error"}
            => (pc' = "empty" <=> df' = << >>)]_vars
    /\ [][OnlyUserRestarts("empty")]_vars

C1_Witness == pc = "empty" /\ df = << >> /\ auto_refresh /\ db # {}

\* C2: a cycle whose fetch is non-empty and whose filtered set is empty goes to
\* Empty and halts, and the aggregation never runs on an empty filtered set.
C2_EmptyFilterHalts ==
    /\ [](pc \in AfterFilterPcs => df_filtered # << >>)
    /\ [](metrics # NoMetrics => metrics.total_lecturas > 0)
    /\ [](pc = "empty" /\ df # << >> =>
            /\ df_filtered = << >> /\ metrics = NoMetrics /\ published = 0
            /\ rendered = {"warning_no_match"}
            /\ Range(queryLog) \subseteq {"latest_sidebar", "latest"})
    /\ [][pc = "filter" /\ pc' \notin {"filter", "sidebar"}
            => (pc' = "empty" <=>
                  ApplyFilters(df, estado_seleccionado, contaminante_seleccionado) = << >>)]_vars
    /\ [][OnlyUserRestarts("empty")]_vars

C2_Witness == pc = "empty" /\ df # << >> /\ df_filtered = << >> /\ auto_refresh

\* C3: with auto-refresh off the run makes one pass of the loop, publishes, and
\* stays in the terminal published state: it never sleeps and never reruns by itself.
C3_SingleShot ==
    /\ [](~auto_refresh => pc # "sleep")
    /\ [](trigger = "auto" => auto_refresh)
    /\ [](pc = "idle" => ~auto_refresh /\ published = 1 /\ iteration = 1)
    /\ [][pc = "decide" /\ ~auto_refresh /\ pc' \notin {"decide", "sidebar"}
            => pc' = "idle"]_vars
    /\ [][OnlyUserRestarts("idle")]_vars

C3_Witness == pc = "idle" /\ ~auto_refresh /\ published = 1 /\ runs = 0

\* the steps of a cycle past the filter: each leads to the next one, unless a
\* store query raises or the user restarts the script
InOrderToPublication ==
    (pc \in AfterFilterPcs \ {"sleep", "idle"} /\ pc' \notin {pc, "sidebar", "error"}) =>
        /\ pc = "aggregate" => pc' = "summary_state"
        /\ pc = "summary_state" => pc' = "summary_cont"
        /\ pc = "summary_cont" => pc' = "time_series"
        /\ pc = "time_series" => pc' = "table"
        /\ pc = "table" => pc' = "decide" /\ published = 0 /\ published' = 1
        /\ pc = "decide" => pc' \in {"sleep", "idle"}

C5_ViewReadInItsCycle ==
    published = 1 =>
        \/ "latest" \in Range(queryLog)
        \/ time_window = SidebarHours /\ "latest_sidebar" \in Range(queryLog)

\* C6 as stated: a run that a store failure ends has published nothing of a
\* Summary View (and is not the Empty state).
C6_FailedCyclePublishesNothing ==
    pc = "error" =>
        /\ published = 0
        /\ rendered \cap ViewShapes = {}
        /\ rendered \cap {"warning_no_data", "warning_no_match"} = {}

-----------------------------------------------------------------------------
(* Properties of the prediction tab (checked under PredSpec)               *)

ModelNames == {"modelo1", "modelo2"}

\* C7: each loaded model is invoked whatever the other one does; a model whose
\* predict returns reports that number, a model whose predict raises reports a
\* None prediction with its own error string.
C7_IndependentModels ==
    ppc = "result" =>
        \A m \in ModelNames : models[m] # NONE =>
            /\ \E i \in 1..Len(invoked) : invoked[i] = m
            /\ IF outcomes[m].ok
               THEN /\ Get(predictions, m) = outcomes[m].value
                    /\ (m \o "_error") \notin DOMAIN predictions
                    /\ shown[m] = "card"
               ELSE /\ m \in DOMAIN predictions /\ predictions[m] = NULL
                    /\ Get(predictions, m \o "_error") = ErrorText
                    /\ shown[m] = "error"

C7_Witness ==
    /\ ppc = "result"
    /\ models.modelo1 # NONE /\ models.modelo2 # NONE
    /\ ~outcomes.modelo1.ok /\ outcomes.modelo2.ok
    /\ predictions["modelo2"] = 58 /\ predictions["modelo1_error"] = ErrorText

\* C8: when both models are None the run stops at the guard: no model is
\* invoked, no get_unique_values query is issued and no prediction is requested.
C8_UnavailableBeforeInvocation ==
    /\ (ppc # "load" /\ models.modelo1 = NONE /\ models.modelo2 = NONE) =>
            /\ ppc \in {"guard", "stopped"}
            /\ invoked = << >> /\ predQueries = << >>
            /\ predictions = EmptyDict /\ handed = NoHanded
    /\ ppc = "stopped" => models.modelo1 = NONE /\ models.modelo2 = NONE

C8_Witness == ppc = "stopped" /\ artifacts.modelo1 = "missing" /\ artifacts.modelo2 = "missing"

C10_Comparison ==
    ppc = "result" =>
        IF Get(predictions, "modelo1") # NULL /\ Get(predictions, "modelo2") # NULL
        THEN LET a == predictions["modelo1"]
                 b == predictions["modelo2"]
                 d == IF a >= b THEN a - b ELSE b - a
             IN /\ comparison.rendered
                /\ comparison.diff = d
                /\ comparison.avg_den > 0
                /\ 2 * comparison.avg_num = comparison.avg_den * (a + b)
                /\ d < 10 => comparison.agreement = "Alta"
                /\ (10 <= d /\ d < 20) => comparison.agreement = "Media"
                /\ d >= 20 => comparison.agreement = "Baja"
                /\ (a = 42 /\ b = 58) =>
                       /\ comparison.diff = 16
                       /\ comparison.avg_num = 50 * comparison.avg_den
                       /\ comparison.agreement = "Media"
        ELSE ~comparison.rendered

C10_Witness ==
    /\ ppc = "result"
    /\ Get(predictions, "modelo1") = 42 /\ Get(predictions, "modelo2") = 58
    /\ comparison.rendered /\ comparison.agreement = "Media"

-----------------------------------------------------------------------------
(* Properties of the in-memory functions (checked under FnSpec)            *)

Bands ==
    << [upper |-> 50, name |-> "Good"],
       [upper |-> 100, name |-> "Moderate"],
       [upper |-> 150, name |-> "Unhealthy for Sensitive Groups"],
       [upper |-> 200, name |-> "Unhealthy"],
       [upper |-> 300, name |-> "Very Unhealthy"] >>

\* first band whose inclusive upper boundary is not below a; none: Hazardous
BandOf(a) ==
    LET fits == {i \in 1..Len(Bands) : a.num <= Bands[i].upper * a.den}
    IN IF fits = {} THEN "Hazardous"
       ELSE Bands[CHOOSE i \in fits : \A j \in fits : i <= j].name

SeverityRank(name) ==
    CASE name = "Good" -> 1
      [] name = "Moderate" -> 2
      [] name = "Unhealthy for Sensitive Groups" -> 3
      [] name = "Unhealthy" -> 4
      [] name = "Very Unhealthy" -> 5
      [] name = "Hazardous" -> 6

\* C11: the classifier returns Unknown for a null argument and otherwise the
\* first band of the table whose upper boundary (inclusive) is not below the
\* argument, Hazardous above 300; it answers every argument, and a larger
\* argument never gets a lower severity rank.
C11_ClassifierTable ==
    info # NoInfo =>
        /\ info[1] = (IF aqi.den = 0 THEN "Unknown" ELSE BandOf(aqi))
        /\ \A b \in AqiInputs :
              (b.den # 0 /\ aqi.den # 0 /\ b.num * aqi.den <= aqi.num * b.den)
                  => SeverityRank(GetAqiCategoryInfo(b)[1]) <= SeverityRank(info[1])

C11_Witness ==
    /\ aqi = [num |-> 30000, den |-> 100]
    /\ info[1] = "Very Unhealthy"

\* position of a row in a frame (rows are distinct)
Pos(frame, r) == CHOOSE k \in 1..Len(frame) : frame[k] = r

\* C12: filtering by region then by pollutant, by pollutant then by region, and
\* by both at once give the same frame; its rows are those that pass each filter
\* alone, in the order they have in the input.
C12_FiltersCommute ==
    pc # "filter" =>
        LET e == estado_seleccionado
            c == contaminante_seleccionado
            byE == ApplyFilters(df, e, Todos)
            byC == ApplyFilters(df, Todos, c)
        IN /\ df_filtered = ApplyFilters(byE, Todos, c)
           /\ df_filtered = ApplyFilters(byC, e, Todos)
           /\ Range(df_filtered) = Range(byE) \cap Range(byC)
           /\ \A i, j \in 1..Len(df_filtered) :
                 i < j => Pos(df, df_filtered[i]) < Pos(df, df_filtered[j])

C12_Witness ==
    /\ pc = "aggregate"
    /\ estado_seleccionado # Todos /\ contaminante_seleccionado # Todos
    /\ Len(df_filtered) < Len(ApplyFilters(df, estado_seleccionado, Todos))
    /\ Len(df_filtered) < Len(ApplyFilters(df, Todos, contaminante_seleccionado))

\* C13: with both selectors at "Todos" the filtered frame is the input frame,
\* rows without a region or a pollutant included.
C13_TodosIsNoOp ==
    (pc # "filter" /\ estado_seleccionado = Todos /\ contaminante_seleccionado = Todos)
        => df_filtered = df

C13_Witness ==
    /\ pc = "aggregate"
    /\ estado_seleccionado = Todos /\ contaminante_seleccionado = Todos
    /\ \E i \in 1..Len(df_filtered) :
          df_filtered[i].estado = NONE /\ df_filtered[i].contaminante = NONE

RECURSIVE SumPctNum(_)
SumPctNum(D) ==
    IF D = {} THEN 0
    ELSE LET d == CHOOSE x \in D : TRUE IN d.pct_num + SumPctNum(D \ {d})

\* C14 as stated: over a non-empty filtered frame the percentages of the
\* category distribution add up to 100, rows without a category label included.
C14_PercentagesSumTo100 ==
    (pc = "summary_state" /\ df_filtered # << >>)
        => SumPctNum(categoria_counts) = 100 * Len(df_filtered)

\* C15 as stated: the map frame has one row per city of the filtered frame, and
\* each row is the reading of that city with the greatest fecha, field by field.
C15_LatestReadingPerCity ==
    pc = "summary_state" =>
        /\ \A i \in 1..Len(df_filtered) :
              df_filtered[i].ciudad # NONE
                  => Cardinality({m \in df_map : m.ciudad = df_filtered[i].ciudad}) = 1
        /\ \A m \in df_map :
              \E i \in 1..Len(df_filtered) :
                  /\ df_filtered[i] = m
                  /\ \A j \in 1..Len(df_filtered) :
                        df_filtered[j].ciudad = m.ciudad
                            => df_filtered[j].fecha <= m.fecha

RECURSIVE SeqAqiSum(_)
SeqAqiSum(frame) ==
    IF frame = << >> THEN 0
    ELSE (IF Head(frame).aqi = NULL THEN 0 ELSE Head(frame).aqi) + SeqAqiSum(Tail(frame))

\* C16: the count is the number of filtered rows, null AQI or not; mean (sum
\* over count) and max are taken over the rows with an AQI; the city and region
\* counts are the numbers of distinct non-null values; AQI 45 and 55 under the
\* TX filter give mean 50.
C16_MainMetrics ==
    pc = "summary_state" =>
        LET idx == 1..Len(df_filtered)
            withAqi == {i \in idx : df_filtered[i].aqi # NULL}
        IN /\ metrics.total_lecturas = Len(df_filtered)
           /\ metrics.aqi_n = Cardinality(withAqi)
           /\ metrics.aqi_sum = SeqAqiSum(df_filtered)
           /\ IF withAqi = {} THEN metrics.max_aqi = NULL
              ELSE /\ \E i \in withAqi : df_filtered[i].aqi = metrics.max_aqi
                   /\ \A i \in withAqi : df_filtered[i].aqi <= metrics.max_aqi
           /\ metrics.ciudades = Cardinality({df_filtered[i].ciudad : i \in idx} \ {NONE})
           /\ metrics.estados = Cardinality({df_filtered[i].estado : i \in idx} \ {NONE})
           /\ ({df_filtered[i].aqi : i \in withAqi} = {45, 55} /\ Cardinality(withAqi) = 2)
                 => metrics.aqi_sum = 50 * metrics.aqi_n

C16_Witness ==
    /\ pc = "summary_state"
    /\ estado_seleccionado = "TX"
    /\ Len(df_filtered) = 3
    /\ \E i \in 1..3 : df_filtered[i].aqi = NULL
    /\ metrics.total_lecturas = 3 /\ metrics.aqi_n = 2 /\ metrics.aqi_sum = 100

-----------------------------------------------------------------------------
(* Further properties of the prediction tab (checked under PredSpec)       *)

FiveFields == {"ciudad", "estado", "contaminante", "latitud", "longitud"}

\* C17: modelo1 is handed exactly ciudad, estado, contaminante, latitud and
\* longitud; modelo2 the same five with the same values plus categoria and
\* fecha; categoria is "Good" when the request gives none (None or empty) and
\* the request's category otherwise; fecha is the current time when the request
\* gives none (as the button's call does) and the request's fecha otherwise.
C17_FramesHanded ==
    /\ ppc = "result" =>
          /\ DOMAIN handed.modelo1 = FiveFields
          /\ DOMAIN handed.modelo2 = FiveFields \cup {"categoria", "fecha"}
          /\ \A f \in FiveFields : handed.modelo2[f] = handed.modelo1[f]
          /\ handed.modelo1.ciudad \in Options({r.ciudad : r \in db})
          /\ handed.modelo1.estado \in Options({r.estado : r \in db})
          /\ handed.modelo1.contaminante \in Options({r.contaminante : r \in db})
          /\ handed.modelo1.latitud \in LatValues
          /\ handed.modelo1.longitud \in LonValues
          /\ handed.modelo2.categoria =
                 (IF pred_categoria \in {NONE, ""} THEN "Good" ELSE pred_categoria)
          /\ handed.modelo2.fecha = NowHour
    /\ \A fecha \in {NULL, 7, NowHour}, cat \in {NONE, "", "Good", "USG"} :
          LET d == DataModelo2("Austin", "TX", "O3", 40, -100, fecha, cat)
          IN /\ d.fecha = (IF fecha = NULL THEN NowHour ELSE fecha)
             /\ d.categoria = (IF cat \in {NONE, ""} THEN "Good" ELSE cat)

C17_Witness ==
    /\ ppc = "result"
    /\ pred_categoria = "USG"
    /\ handed.modelo2.categoria = "USG"
    /\ handed.modelo2.fecha = NowHour
    /\ "modelo2" \in Range(invoked)

-----------------------------------------------------------------------------
(* Further properties of the refresh loop (checked under Spec)             *)

\* C18 as stated: the four shapes of a published view are all computed from
\* the filtered frame of the cycle (the frame being what the store holds for
\* the window): a row the filters exclude is in none of them.
C18_ShapesFromFilteredSet ==
    (published = 1 /\ df = QueryLatest(db, time_window)) =>
        LET F == Range(df_filtered)
            ts_cont == IF selected_cont_chart = Todos THEN NONE ELSE selected_cont_chart
        IN /\ metrics = MainMetrics(df_filtered)
           /\ summary_state = QuerySummaryByState(F, time_window)
           /\ summary_cont = QuerySummaryByContaminante(F, time_window)
           /\ df_ts = QueryTimeSeries(F, ts_cont, time_window)

QueryOrder == <<"latest_sidebar", "latest", "by_state", "by_cont", "ts">>

\* s picks entries of t, each at most once, in t's order
IsSubsequenceOf(s, t) ==
    /\ Range(s) \subseteq Range(t)
    /\ \A i, j \in 1..Len(s) : i < j => Pos(t, s[i]) < Pos(t, s[j])

\* a step issues at most one query, which joins the end of the run's log
OneQueryPerStep ==
    \/ queryLog' = queryLog
    \/ queryLog' = << >>
    \/ \E q \in Range(QueryOrder) : queryLog' = Append(queryLog, q)

PhaseBefore ==
    [fetch |-> "sidebar", filter |-> "fetch", aggregate |-> "filter",
     summary_state |-> "aggregate", summary_cont |-> "summary_state",
     time_series |-> "summary_cont", table |-> "time_series", decide |-> "table"]

PhaseOrder ==
    pc' # pc =>
        \/ pc' \in DOMAIN PhaseBefore /\ pc = PhaseBefore[pc']
        \/ pc' = "empty" /\ pc \in {"fetch", "filter"}
        \/ pc' = "error" /\ pc \in {"sidebar", "fetch", "summary_state", "summary_cont",
                                     "time_series"}
        \/ pc' \in {"idle", "sleep"} /\ pc = "decide" /\ published = 1
        \/ pc' = "sidebar" /\ trigger' = "user"
        \/ /\ pc' = "sidebar" /\ trigger' = "auto"
           /\ pc = "sleep" /\ published = 1 /\ slept' = refresh_interval

\* C20: the steps of a run follow one another in the order fetch, filter,
\* aggregate (with the summary queries), publish; the view is completed only by
\* the last step; and a new run starts only out of the sleep that follows a
\* publication, or by a change the user makes.
C20_StrictlySequential ==
    /\ [][PhaseOrder]_vars
    /\ [][published' > published => (pc = "table" /\ pc' = "decide")]_vars
    /\ [](pc \in {"filter", "aggregate", "summary_state", "summary_cont", "time_series",
                   "table"} => published = 0)

C20_Witness ==
    /\ trigger = "auto" /\ runs = 1
    /\ pc = "filter" /\ df # << >>
    /\ slept = refresh_interval

CycleParameters == <<time_window, estado_seleccionado, contaminante_seleccionado>>

\* a change of a parameter is the start of a run: the script is back at its
\* first line and nothing of the run before is left
ChangeRestarts ==
    CycleParameters' # CycleParameters =>
        /\ pc' = "sidebar" /\ trigger' = "user"
        /\ df' = << >> /\ df_filtered' = << >> /\ metrics' = NoMetrics
        /\ summary_state' = << >> /\ summary_cont' = << >> /\ df_ts' = << >>
        /\ published' = 0 /\ queryLog' = << >>

\* C21: the time window and the two filters change only by the user starting a
\* new run with them; what a run in progress holds was all obtained with the
\* values it has now: the filtered frame is the frame filtered by the current
\* selectors, and (query cache) each result is the entry of the current window.
C21_ParametersFixedPerCycle ==
    /\ [][ChangeRestarts]_vars
    /\ [](pc \in {"aggregate", "summary_state", "summary_cont", "time_series", "table",
                   "decide", "sleep", "idle"}
            => df_filtered = ApplyFilters(df, estado_seleccionado,
                                          contaminante_seleccionado))
    /\ []((UsesCache /\ pc \in {"filter", "aggregate", "summary_state", "summary_cont",
                                  "time_series", "table", "decide"})
            => /\ df = cache[<<"latest", NONE, time_window>>].rows
               /\ pc \in {"summary_cont", "time_series", "table", "decide"}
                     => summary_state = cache[<<"by_state", NONE, time_window>>].rows
               /\ pc \in {"time_series", "table", "decide"}
                     => summary_cont = cache[<<"by_cont", NONE, time_window>>].rows)

C21_Witness ==
    /\ trigger = "user" /\ runs > 0
    /\ estado_seleccionado # Todos
    /\ pc = "decide" /\ published = 1
    /\ Len(df_filtered) < Len(df)

\* C22: the hourly series holds rows of the chart selector's pollutant only
\* when that selector names one, and of every pollutant of the window when it
\* is "Todos", whatever the sidebar's pollutant filter is (compared with the
\* store where no cache stands between and no row arrived since the fetch).
C22_SeriesBySelectorOnly ==
    pc \in {"table", "decide", "sleep", "idle"} =>
        LET W == InWindow(db, time_window)
            fresh == ~UsesCache /\ df = QueryLatest(db, time_window)
        IN /\ selected_cont_chart # Todos
                 => \A i \in 1..Len(df_ts) : df_ts[i].contaminante = selected_cont_chart
           /\ (fresh /\ selected_cont_chart # Todos)
                 => {df_ts[i].hora : i \in 1..Len(df_ts)}
                        = {r.fecha : r \in {x \in W : x.contaminante = selected_cont_chart}}
           /\ (fresh /\ selected_cont_chart = Todos)
                 => {<<df_ts[i].hora, df_ts[i].contaminante>> : i \in 1..Len(df_ts)}
                        = {<<r.fecha, r.contaminante>> : r \in W}

C22_Witness ==
    /\ program = "part_000"
    /\ pc = "table"
    /\ contaminante_seleccionado = "O3" /\ selected_cont_chart = Todos
    /\ df = QueryLatest(db, time_window)
    /\ \E i \in 1..Len(df_ts) : df_ts[i].contaminante = "PM25"

\* C23: in the dict a call of predict_aqi returns, a model that is None has no
\* key at all; a loaded model has its key, holding either a number with no
\* error key beside it or None with the error text under its error key; and
\* the dict has no other keys.
C23_ResultEntries ==
    ppc = "result" =>
        /\ \A m \in ModelNames :
              LET err == m \o "_error" IN
              IF models[m] = NONE
              THEN m \notin DOMAIN predictions /\ err \notin DOMAIN predictions
              ELSE /\ m \in DOMAIN predictions
                   /\ \/ predictions[m] # NULL /\ err \notin DOMAIN predictions
                      \/ /\ predictions[m] = NULL
                         /\ err \in DOMAIN predictions
                         /\ predictions[err] = ErrorText
        /\ DOMAIN predictions \subseteq ModelNames \cup {m \o "_error" : m \in ModelNames}

C23_Witness ==
    /\ ppc = "result"
    /\ models.modelo1 = NONE /\ models.modelo2 # NONE
    /\ DOMAIN predictions = {"modelo2", "modelo2_error"}
    /\ predictions["modelo2"] = NULL

====
